---- MODULE Spec2Model ----
(***************************************************************************)
(* A model of the tool-invocation engine of agent_tools.py: the Engine     *)
(* request pipeline (resolve, parse/coerce, cache lookup, input            *)
(* guardrails, invoke with bounded retry and timeout, normalize, output    *)
(* guardrails, cache store) with its TraceSink and cache.                   *)
(*                                                                         *)
(* run_sync is one atomic action: nothing in it suspends.  run_async may   *)
(* suspend only at the await of one tool attempt, so it is an action up to *)
(* the first await and one action per completed attempt.                   *)
(***************************************************************************)
EXTENDS Integers, Sequences, FiniteSets, TLC

(***************************************************************************)
(* Bounds of the model.                                                    *)
(***************************************************************************)
MaxCalls == 2
MaxRetries == 1
\* guardrails handed to one Engine
MaxGuards == 2
\* events emitted to a TraceSink on its own, and values a caller writes
MaxEvents == 2
MaxVal == 2

(***************************************************************************)
(* Python values, tagged with their type.  A str is a sequence of          *)
(* one-character strings where the code inspects its characters; a dict is *)
(* a function from key names to values.                                    *)
(***************************************************************************)
IntV(n) == [t |-> "int", v |-> n]
BoolV(b) == [t |-> "bool", v |-> b]
StrV(s) == [t |-> "str", v |-> s]
\* A str the model never looks inside (a tool name, a raw string, a literal).
TextV(s) == [t |-> "text", v |-> s]
DictV(d) == [t |-> "dict", v |-> d]
BytesV(n) == [t |-> "bytes", v |-> n]
ListV(s) == [t |-> "list", v |-> s]
NoneV == [t |-> "none", v |-> 0]

\* A message is the sequence of the parts it is concatenated from.
\* Exceptions carry their class and str(e).
Exc(cls, msg) == [cls |-> cls, msg |-> msg]

\* The f-string "<prefix>{e}".
Msg(prefix, detail) == <<prefix>> \o detail

\* error_message=None: no message (no message of the code is empty).
NoMsg == <<>>

(***************************************************************************)
(* String helpers used by _coerce.                                         *)
(***************************************************************************)
Digits == {"0", "1", "2", "3", "4", "5", "6", "7", "8", "9"}

DigitVal(ch) ==
    CASE ch = "0" -> 0 [] ch = "1" -> 1 [] ch = "2" -> 2 [] ch = "3" -> 3
      [] ch = "4" -> 4 [] ch = "5" -> 5 [] ch = "6" -> 6 [] ch = "7" -> 7
      [] ch = "8" -> 8 [] ch = "9" -> 9

RECURSIVE LStrip(_, _)
LStrip(s, chars) ==
    IF s # <<>> /\ Head(s) \in chars THEN LStrip(Tail(s), chars) ELSE s

RECURSIVE RStrip(_, _)
RStrip(s, chars) ==
    IF s # <<>> /\ s[Len(s)] \in chars
    THEN RStrip(SubSeq(s, 1, Len(s) - 1), chars) ELSE s

\* str.strip(): whitespace off both ends.
Strip(s) == RStrip(LStrip(s, {" "}), {" "})

\* str.isdigit(): non-empty and every character a digit.
IsDigit(s) == s # <<>> /\ \A i \in 1..Len(s) : s[i] \in Digits

LowerCh(ch) ==
    CASE ch = "T" -> "t" [] ch = "R" -> "r" [] ch = "U" -> "u" [] ch = "E" -> "e"
      [] ch = "F" -> "f" [] ch = "A" -> "a" [] ch = "L" -> "l" [] ch = "S" -> "s"
      [] OTHER -> ch

\* str.lower()
Lower(s) == [i \in 1..Len(s) |-> LowerCh(s[i])]

RECURSIVE DigitsVal(_)
DigitsVal(s) ==
    IF s = <<>> THEN 0
    ELSE 10 * DigitsVal(SubSeq(s, 1, Len(s) - 1)) + DigitVal(s[Len(s)])

\* int(s) of a stripped string: an optional single sign, then digits only;
\* anything else raises ValueError("invalid literal for int() ...").
IntOfStr(s) ==
    IF IsDigit(s) THEN [ok |-> TRUE, val |-> DigitsVal(s)]
    ELSE IF s # <<>> /\ Head(s) = "-" /\ IsDigit(Tail(s))
         THEN [ok |-> TRUE, val |-> 0 - DigitsVal(Tail(s))]
    ELSE IF s # <<>> /\ Head(s) = "+" /\ IsDigit(Tail(s))
         THEN [ok |-> TRUE, val |-> DigitsVal(Tail(s))]
    ELSE [ok |-> FALSE, err |-> <<"invalid literal for int() with base 10: ", s>>]

\* isinstance(v, int): bool is a subclass of int in Python.
IsInt(v) == v.t \in {"int", "bool"}
IsBool(v) == v.t = "bool"
IsStr(v) == v.t = "str"

(***************************************************************************)
(* Data model: ToolContext, ToolSpec, FunctionTool, Registry, ToolResult.  *)
(***************************************************************************)
ToolContext(trace_id, user_id) == [trace_id |-> trace_id, user_id |-> user_id]

\* schema: the dict's items in insertion order; defaults: a dict (<<>> for None).
ToolSpec(schema, defaults) == [schema |-> schema, defaults |-> defaults]

\* fn is the callable's kind: a plain function ("sync") or an async def ("async").
FunctionTool(name, spec, fn) == [name |-> name, spec |-> spec, fn |-> fn]

ToolResult(tool_name, ok, output, error_message, attempts, cached) ==
    [tool_name |-> tool_name, ok |-> ok, output |-> output,
     error_message |-> error_message, attempts |-> attempts, cached |-> cached]

\* The registries the engines of the model are built with: the tool of the
\* tests, its body a plain function or an async def.
Registries ==
    {("t" :> FunctionTool("t", ToolSpec(<< <<"x", "int">> >>, <<>>), fn)) : fn \in {"sync", "async"}}

\* Registry.get on the registry r: the tool, or KeyError.
RegistryGet(r, name) ==
    IF name \notin DOMAIN r THEN [ok |-> FALSE, exc |-> Exc("KeyError", <<name>>)]
    ELSE [ok |-> TRUE, tool |-> r[name]]

(***************************************************************************)
(* The raw argument strings of the model and what json.loads makes of them.*)
(***************************************************************************)
RawX1 == "{\"x\":1}"
RawX1Spaced == "{ \"x\":1 }"
RawList == "[1]"
RawBadInt == "{\"x\":\"a\"}"
RawBlank == " "

\* Argument documents for the tool whose schema is {"x": "int"}: x of every
\* kind of value, keys the schema does not name, and no x at all.
Chars(s) == StrV(s)

ArgDocs ==
    {[raw |-> "{\"x\":5}", val |-> "x" :> IntV(5)],
     [raw |-> "{\"x\":-5}", val |-> "x" :> IntV(0 - 5)],
     [raw |-> "{\"x\":true}", val |-> "x" :> BoolV(TRUE)],
     [raw |-> "{\"x\":null}", val |-> "x" :> NoneV],
     [raw |-> "{\"x\":[1]}", val |-> "x" :> ListV(<<IntV(1)>>)],
     [raw |-> "{\"x\":\"5\"}", val |-> "x" :> Chars(<<"5">>)],
     [raw |-> "{\"x\":\" -5 \"}", val |-> "x" :> Chars(<<" ", "-", "5", " ">>)],
     [raw |-> "{\"x\":\"+5\"}", val |-> "x" :> Chars(<<"+", "5">>)],
     [raw |-> "{\"x\":\"-\"}", val |-> "x" :> Chars(<<"-">>)],
     [raw |-> "{\"x\":\"--5\"}", val |-> "x" :> Chars(<<"-", "-", "5">>)],
     [raw |-> "{\"x\":\"5-\"}", val |-> "x" :> Chars(<<"5", "-">>)],
     [raw |-> "{\"x\":\"- 5\"}", val |-> "x" :> Chars(<<"-", " ", "5">>)],
     [raw |-> "{\"x\":\"\"}", val |-> "x" :> Chars(<<>>)],
     [raw |-> "{\"x\":\"2\",\"extra\":7,\"d\":\"keep\"}",
      val |-> ("x" :> Chars(<<"2">>)) @@ ("extra" :> IntV(7)) @@ ("d" :> Chars(<<"k", "e", "e", "p">>))],
     [raw |-> "{\"extra\":\"7\"}", val |-> "extra" :> Chars(<<"7">>)],
     [raw |-> "{}", val |-> <<>>]}

ArgRaws == {e.raw : e \in ArgDocs}

\* raw.strip() is empty
IsBlank(raw) == raw \in {"", RawBlank}

JsonLoads(raw) ==
    CASE raw = RawX1 -> [ok |-> TRUE, val |-> DictV("x" :> IntV(1))]
      [] raw = RawX1Spaced -> [ok |-> TRUE, val |-> DictV("x" :> IntV(1))]
      [] raw = RawList -> [ok |-> TRUE, val |-> ListV(<<IntV(1)>>)]
      [] raw = RawBadInt -> [ok |-> TRUE, val |-> DictV("x" :> StrV(<<"a">>))]
      [] raw \in ArgRaws -> [ok |-> TRUE, val |-> DictV((CHOOSE e \in ArgDocs : e.raw = raw).val)]
      [] OTHER -> [ok |-> FALSE, exc |-> Exc("JSONDecodeError", <<"Expecting value">>)]

(***************************************************************************)
(* Engine._coerce                                                          *)
(***************************************************************************)
\* out[k] = v
DictSet(d, k, v) == [j \in DOMAIN d \cup {k} |-> IF j = k THEN v ELSE d[j]]

\* dict without key k
DictPop(d, k) == [j \in DOMAIN d \ {k} |-> d[j]]

\* Defaults that replace what the caller supplied.
ApplyDefaultsOverCaller(defaults, d) ==
    [k \in DOMAIN d \cup DOMAIN defaults |-> IF k \in DOMAIN defaults THEN defaults[k] ELSE d[k]]

\* for k,v in defaults.items(): if k not in out: out[k]=v
ApplyDefaults(defaults, d) ==
    [k \in DOMAIN d \cup DOMAIN defaults |-> IF k \in DOMAIN d THEN d[k] ELSE defaults[k]]

\* One key of the schema loop: the coerced value, or the ValueError raised.
CoerceValue(k, t, v) ==
    IF t = "int" THEN
        IF IsInt(v) THEN [ok |-> TRUE, val |-> v]
        ELSE IF IsStr(v) /\ IsDigit(LStrip(Strip(v.v), {"-"})) THEN
            LET n == IntOfStr(Strip(v.v))
            IN  IF n.ok THEN [ok |-> TRUE, val |-> IntV(n.val)]
                ELSE [ok |-> FALSE, exc |-> Exc("ValueError", n.err)]
        ELSE [ok |-> FALSE, exc |-> Exc("ValueError", <<"bad_int:", k>>)]
    ELSE IF t = "bool" THEN
        IF IsBool(v) THEN [ok |-> TRUE, val |-> v]
        ELSE IF IsStr(v) /\ Lower(Strip(v.v)) \in {<<"t", "r", "u", "e">>, <<"f", "a", "l", "s", "e">>}
        THEN [ok |-> TRUE, val |-> BoolV(Lower(Strip(v.v)) = <<"t", "r", "u", "e">>)]
        ELSE [ok |-> FALSE, exc |-> Exc("ValueError", <<"bad_bool:", k>>)]
    ELSE IF t = "str" THEN
        IF IsStr(v) THEN [ok |-> TRUE, val |-> v]
        ELSE [ok |-> FALSE, exc |-> Exc("ValueError", <<"bad_str:", k>>)]
    ELSE [ok |-> FALSE, exc |-> Exc("ValueError", <<"bad_type:", k>>)]

\* for k,t in schema.items(): from item i on, over the working copy out.
RECURSIVE CoerceLoop(_, _, _)
CoerceLoop(schema, i, out) ==
    IF i > Len(schema) THEN [ok |-> TRUE, val |-> out]
    ELSE LET k == schema[i][1]
             t == schema[i][2]
         IN  IF k \notin DOMAIN out THEN CoerceLoop(schema, i + 1, out)
             ELSE LET r == CoerceValue(k, t, out[k])
                  IN  IF r.ok THEN CoerceLoop(schema, i + 1, DictSet(out, k, r.val))
                      ELSE r

\* The coerced copy of d (d itself is never written), or the ValueError.
Coerce(tool, d) == CoerceLoop(tool.spec.schema, 1, ApplyDefaults(tool.spec.defaults, d))

(***************************************************************************)
(* Engine._norm                                                            *)
(***************************************************************************)
\* out.get(key) is True
HasTrue(out, key) == out.t = "dict" /\ key \in DOMAIN out.v /\ out.v[key] = BoolV(TRUE)

\* A normalisation that nests the output with its marker left in.
NormKeepsWrapMarker(tool_name, out, raw) ==
    IF out = NoneV THEN TextV("null")
    ELSE IF out.t = "bytes" THEN DictV(("type" :> TextV("bytes")) @@ ("len" :> IntV(out.v)))
    ELSE IF HasTrue(out, "_echo_raw") THEN DictV(DictSet(out.v, "raw", TextV(raw)))
    ELSE IF HasTrue(out, "_wrap")
         THEN DictV(("tool" :> TextV(tool_name)) @@ ("data" :> out))
    ELSE out

Norm(tool_name, out, raw) ==
    IF out = NoneV THEN TextV("null")
    ELSE IF out.t = "bytes" THEN DictV(("type" :> TextV("bytes")) @@ ("len" :> IntV(out.v)))
    ELSE IF HasTrue(out, "_echo_raw") THEN DictV(DictSet(out.v, "raw", TextV(raw)))
    ELSE IF HasTrue(out, "_wrap")
         THEN DictV(("tool" :> TextV(tool_name)) @@ ("data" :> DictV(DictPop(out.v, "_wrap"))))
    ELSE out

(***************************************************************************)
(* State.                                                                  *)
(*   reg, cfg, in_g, out_g  the Engine's registry, configuration and       *)
(*                     guardrail lists                                     *)
(*   cache             Engine.cache, keyed by <<tool name, raw>>           *)
(*   tr                TraceSink.events                                    *)
(*   fx                the calls made to the callables handed to the       *)
(*                     Engine (guardrails and tool functions), in order    *)
(*   calls             one record per run_sync/run_async call: its         *)
(*                     arguments, its locals while suspended, its outcome  *)
(*   twin              after a run_sync step: whether run_async, from the  *)
(*                     same state on the same arguments and tool           *)
(*                     behaviour, returns the same, appends the same       *)
(*                     events and leaves the same cache                    *)
(*   heap              the objects of a caller of TraceSink.emit: the      *)
(*                     payload dict it passes and the dict nested in it    *)
(*   snap              for each stored event, what its payload held, to    *)
(*                     full depth, when emit returned                      *)
(* Every trace event and fx entry carries the number of the call it        *)
(* belongs to (field call), which the program itself does not store.       *)
(***************************************************************************)
VARIABLES reg, cfg, in_g, out_g, cache, tr, fx, calls, twin, heap, snap

vars == <<reg, cfg, in_g, out_g, cache, tr, fx, calls, twin, heap, snap>>

EngineConfig(max_retries, enable_cache) ==
    [max_retries |-> max_retries, enable_cache |-> enable_cache]

\* A sink that puts a new event in front of the others.
EmitInFront(events, c, name, payload) ==
    <<[name |-> name, payload |-> payload, call |-> c]>> \o events

\* TraceSink.emit: append an event holding a copy of the payload.
Emit(events, c, name, payload) ==
    Append(events, [name |-> name, payload |-> payload, call |-> c])

\* The sequences over S of length at most n.
SeqsUpTo(S, n) == UNION {[1..k -> S] : k \in 0..n}

(***************************************************************************)
(* The callables handed to the Engine.                                     *)
(***************************************************************************)
\* A guardrail returns normally, signals a policy violation, or fails with
\* another error.
GuardKinds == {"pass", "block", "crash"}

\* g(ctx, tool_name, data) for the guardrails of the model: one that always
\* passes, one that always blocks, one that raises an exception of another
\* class, and one that decides by the context (blocks a call without user_id).
GuardCall(g, ctx, tool_name, data) ==
    CASE g = "pass" -> [ok |-> TRUE]
      [] g = "block" -> [ok |-> FALSE, exc |-> Exc("GuardrailError", <<"nope">>)]
      [] g = "crash" -> [ok |-> FALSE, exc |-> Exc("RuntimeError", <<"boom">>)]
      [] g = "known_user" ->
            IF ctx.user_id # NoneV THEN [ok |-> TRUE]
            ELSE [ok |-> FALSE, exc |-> Exc("GuardrailError", <<"anonymous">>)]

\* The guardrail lists an Engine of the model is built with: none, or
\* MaxGuards guardrails of which at most one ever fails.
GuardLists ==
    {<<>>} \cup {q \in [1..MaxGuards -> GuardKinds] :
                    Cardinality({i \in 1..MaxGuards : q[i] # "pass"}) <= 1}

\* What the tool's body does on one invocation: return a value, at once or
\* only after more than async_timeout_s, or raise.
Return(out, slow) == [k |-> "return", out |-> out, slow |-> slow]
Raise(cls, msg) == [k |-> "raise", exc |-> Exc(cls, msg), slow |-> FALSE]

OutPlain == DictV("x" :> IntV(1))
OutWrap == DictV(("_wrap" :> BoolV(TRUE)) @@ ("x" :> IntV(1)))
OutEcho == DictV(("_echo_raw" :> BoolV(TRUE)) @@ ("x" :> IntV(1)))

ToolOuts == {OutPlain}

Behaviours ==
    {Return(o, FALSE) : o \in ToolOuts} \cup {Return(OutPlain, TRUE)}
    \cup {Raise("ValueError", <<"bad">>), Raise("RetryableToolError", <<"again">>),
          Raise("RuntimeError", <<"boom">>), Raise("TimeoutError", <<>>)}

\* The tool's behaviour on the successive invocations of one call.  A script
\* ends at its first behaviour that is no retryable failure, or at the last
\* attempt the configuration allows; were the tool invoked beyond that, it
\* would return at once.
IsRetryable(b) == b.k = "raise" /\ b.exc.cls = "RetryableToolError"

Scripts ==
    {q \in SeqsUpTo(Behaviours, cfg.max_retries + 1) :
        /\ Len(q) >= 1
        /\ \A i \in 1..(Len(q) - 1) : IsRetryable(q[i])
        /\ Len(q) < cfg.max_retries + 1 => ~IsRetryable(q[Len(q)])}

BehAt(beh, k) == IF k \in 1..Len(beh) THEN beh[k] ELSE Return(OutPlain, FALSE)

NestedLoopError == Exc("RuntimeError", <<"asyncio.run() cannot be called from a running event loop">>)

\* FunctionTool.s as it would be if asyncio.run started a loop within a loop.
ToolSNestsLoops(tool, inloop, b) ==
    IF b.k = "raise" THEN [k |-> "raise", exc |-> b.exc]
    ELSE [k |-> "return", out |-> b.out]

\* FunctionTool.s: call fn; a coroutine is driven by asyncio.run, which
\* refuses to start inside a running event loop (the body then never runs).
ToolS(tool, inloop, b) ==
    IF tool.fn = "async" /\ inloop THEN [k |-> "raise", exc |-> NestedLoopError]
    ELSE IF b.k = "raise" THEN [k |-> "raise", exc |-> b.exc]
    ELSE [k |-> "return", out |-> b.out]

\* wait_for(FunctionTool.a(...), timeout=async_timeout_s): a coroutine that
\* outlives the deadline is cancelled with TimeoutError; a plain function
\* runs inside the coroutine without suspending and cannot be cut short.
ToolA(tool, b) ==
    IF tool.fn = "async" /\ b.slow THEN [k |-> "raise", exc |-> Exc("TimeoutError", <<>>)]
    ELSE IF b.k = "raise" THEN [k |-> "raise", exc |-> b.exc]
    ELSE [k |-> "return", out |-> b.out]

(***************************************************************************)
(* Engine._parse_and_coerce.  tool is NoneV when resolution has not        *)
(* happened.  keys stands for sorted(a.keys()), the keys in order.         *)
(***************************************************************************)
\* The try block: the decoded and coerced arguments, or the exception.
ParseArgs(raw, tool) ==
    LET loaded == IF IsBlank(raw) THEN [ok |-> TRUE, val |-> DictV(<<>>)] ELSE JsonLoads(raw)
    IN  IF ~loaded.ok THEN loaded
        ELSE IF loaded.val.t # "dict"
             THEN [ok |-> FALSE, exc |-> Exc("ValueError", <<"args_not_object">>)]
        ELSE IF tool # NoneV THEN Coerce(tool, loaded.val.v)
        ELSE [ok |-> TRUE, val |-> loaded.val.v]

\* What follows the try block, for its outcome p.
ParseOutcome(c, tn, p, events) ==
    IF ~p.ok
    THEN [ok |-> FALSE,
          tr |-> Emit(events, c, "args.parse.fail", [tool_name |-> tn, err |-> p.exc.msg]),
          result |-> ToolResult(tn, FALSE, NoneV, Msg("bad_args:", p.exc.msg), 0, FALSE)]
    ELSE [ok |-> TRUE,
          tr |-> Emit(events, c, "args.parse.ok", [tool_name |-> tn, keys |-> DOMAIN p.val]),
          a |-> p.val]

ParseAndCoerce(c, name, raw, tool, events) ==
    ParseOutcome(c, IF tool # NoneV THEN tool.name ELSE name, ParseArgs(raw, tool), events)

(***************************************************************************)
(* Engine._check_cache                                                     *)
(***************************************************************************)
\* A lookup keyed by the tool's name alone.
CheckCacheByName(c, tool, raw, store, events) ==
    IF cfg.enable_cache
    THEN IF \E k \in DOMAIN store : k[1] = tool.name
         THEN [hit |-> TRUE,
               tr |-> Emit(events, c, "cache.hit", [tool_name |-> tool.name]),
               result |-> ToolResult(tool.name, TRUE,
                             store[CHOOSE k \in DOMAIN store : k[1] = tool.name], NoMsg, 0, TRUE)]
         ELSE [hit |-> FALSE,
               tr |-> Emit(events, c, "cache.miss", [tool_name |-> tool.name])]
    ELSE [hit |-> FALSE, tr |-> events]

\* A lookup that finds nothing.
CheckCacheNeverHits(c, tool, raw, store, events) ==
    IF cfg.enable_cache
    THEN [hit |-> FALSE, tr |-> Emit(events, c, "cache.miss", [tool_name |-> tool.name])]
    ELSE [hit |-> FALSE, tr |-> events]

\* A lookup that reports its hit and lets the pipeline run on.
CheckCacheHitRunsOn(c, tool, raw, store, events) ==
    IF cfg.enable_cache
    THEN IF <<tool.name, raw>> \in DOMAIN store
         THEN [hit |-> FALSE,
               tr |-> Emit(events, c, "cache.hit", [tool_name |-> tool.name])]
         ELSE [hit |-> FALSE,
               tr |-> Emit(events, c, "cache.miss", [tool_name |-> tool.name])]
    ELSE [hit |-> FALSE, tr |-> events]

CheckCache(c, tool, raw, store, events) ==
    IF cfg.enable_cache
    THEN IF <<tool.name, raw>> \in DOMAIN store
         THEN [hit |-> TRUE,
               tr |-> Emit(events, c, "cache.hit", [tool_name |-> tool.name]),
               result |-> ToolResult(tool.name, TRUE, store[<<tool.name, raw>>], NoMsg, 0, TRUE)]
         ELSE [hit |-> FALSE,
               tr |-> Emit(events, c, "cache.miss", [tool_name |-> tool.name])]
    ELSE [hit |-> FALSE, tr |-> events]

(***************************************************************************)
(* Engine._run_guardrails_in and _run_guardrails_out                       *)
(***************************************************************************)
\* for g in guards: g(ctx, tool.name, data), from guard i on; stops at the
\* first guard that raises.  effects gets one entry per guard called.
RECURSIVE GuardLoop(_, _, _, _, _, _, _, _)
GuardLoop(guards, i, what, c, ctx, tool_name, data, effects) ==
    IF i > Len(guards) THEN [ok |-> TRUE, fx |-> effects]
    ELSE IF GuardCall(guards[i], ctx, tool_name, data).ok
         THEN GuardLoop(guards, i + 1, what, c, ctx, tool_name, data,
                        Append(effects, [call |-> c, what |-> what, idx |-> i, data |-> data]))
         ELSE [ok |-> FALSE, exc |-> GuardCall(guards[i], ctx, tool_name, data).exc,
               fx |-> Append(effects, [call |-> c, what |-> what, idx |-> i, data |-> data])]

\* What the method does with the loop's outcome r, the start event being in
\* events.  out: "ok" (returns None), "result" (returns a ToolResult) or
\* "raise" (an exception that is no GuardrailError leaves the method).
GuardOutcome(c, tool, stage, attempts, r, events) ==
    IF r.ok
    THEN [out |-> "ok", fx |-> r.fx,
          tr |-> Emit(events, c, stage \o ".ok", [tool_name |-> tool.name])]
    ELSE IF r.exc.cls = "GuardrailError"
    THEN [out |-> "result", fx |-> r.fx,
          tr |-> Emit(events, c, stage \o ".block", [tool_name |-> tool.name, reason |-> r.exc.msg]),
          result |-> ToolResult(tool.name, FALSE, NoneV, Msg("guardrail:", r.exc.msg), attempts, FALSE)]
    ELSE [out |-> "raise", fx |-> r.fx, tr |-> events, exc |-> r.exc]

\* Input guardrails that leave out the first of the list.
RunGuardrailsInFromSecond(c, ctx, tool, a, events, effects) ==
    GuardOutcome(c, tool, "guard.input", 0,
        GuardLoop(in_g, 2, "in_g", c, ctx, tool.name, DictV(a), effects),
        Emit(events, c, "guard.input.start", [tool_name |-> tool.name]))

\* Input guardrails whose verdict is not heeded.
RunGuardrailsInBlocksNothing(c, ctx, tool, a, events, effects) ==
    GuardOutcome(c, tool, "guard.input", 0,
        [ok |-> TRUE, fx |-> GuardLoop(in_g, 1, "in_g", c, ctx, tool.name, DictV(a), effects).fx],
        Emit(events, c, "guard.input.start", [tool_name |-> tool.name]))

RunGuardrailsIn(c, ctx, tool, a, events, effects) ==
    GuardOutcome(c, tool, "guard.input", 0,
        GuardLoop(in_g, 1, "in_g", c, ctx, tool.name, DictV(a), effects),
        Emit(events, c, "guard.input.start", [tool_name |-> tool.name]))

RunGuardrailsOut(c, ctx, tool, n, attempts, events, effects) ==
    GuardOutcome(c, tool, "guard.output", attempts,
        GuardLoop(out_g, 1, "out_g", c, ctx, tool.name, n, effects),
        Emit(events, c, "guard.output.start", [tool_name |-> tool.name]))

(***************************************************************************)
(* Engine._finalize_and_store_cache                                        *)
(***************************************************************************)
\* A store that does not ask whether the cache is enabled.
FinalizeAndStoreCacheAlways(c, tool, raw, n, attempts, store, events) ==
    [cache |-> [k \in DOMAIN store \cup {<<tool.name, raw>>} |->
                   IF k = <<tool.name, raw>> THEN n ELSE store[k]],
     tr |-> Emit(events, c, "cache.store", [tool_name |-> tool.name]),
     result |-> ToolResult(tool.name, TRUE, n, NoMsg, attempts, FALSE)]

FinalizeAndStoreCache(c, tool, raw, n, attempts, store, events) ==
    [cache |-> IF cfg.enable_cache
               THEN [k \in DOMAIN store \cup {<<tool.name, raw>>} |->
                        IF k = <<tool.name, raw>> THEN n ELSE store[k]]
               ELSE store,
     tr |-> IF cfg.enable_cache
            THEN Emit(events, c, "cache.store", [tool_name |-> tool.name])
            ELSE events,
     result |-> ToolResult(tool.name, TRUE, n, NoMsg, attempts, FALSE)]

(***************************************************************************)
(* How a call ends, and what it leaves behind.                             *)
(***************************************************************************)
Returned(result) == [k |-> "return", result |-> result]
Raised(exc) == [k |-> "raise", exc |-> exc]
NoRet == [k |-> "none"]

\* The state a call leaves at its end or at an await: pc ("done" or
\* "await"), its outcome, the cache, the trace, the effects, and the locals
\* a, attempts and last.
Left(pc, ret, store, events, effects, a, attempts, last) ==
    [pc |-> pc, ret |-> ret, cache |-> store, tr |-> events, fx |-> effects,
     a |-> a, attempts |-> attempts, last |-> last]

Done(ret, store, events, effects, a, attempts) ==
    Left("done", ret, store, events, effects, a, attempts, NoMsg)

\* The entry the call of a tool function leaves in the effects.
ToolCalled(c, k, a) == [call |-> c, what |-> "tool", idx |-> k, data |-> DictV(a)]

(***************************************************************************)
(* Engine._invoke_sync: (success, out_or_error_message, attempts,          *)
(* is_user_error), with the trace and the effects it leaves.  beh gives    *)
(* what the tool's body does on its k-th invocation of the call.           *)
(***************************************************************************)
InvokeOut(ok, val, attempts, user, events, effects) ==
    [ok |-> ok, val |-> val, attempts |-> attempts, user |-> user, tr |-> events, fx |-> effects]

\* A loop that forgets the failure it ended on.
AfterLoopForgetsLast(attempts, last, events, effects) ==
    InvokeOut(FALSE, Msg("tool_error:", <<"unknown">>), attempts, FALSE, events, effects)

\* After the while loop: the last retryable failure, or tool_error:unknown.
AfterLoop(attempts, last, events, effects) ==
    IF last # NoMsg THEN InvokeOut(FALSE, last, attempts, FALSE, events, effects)
    ELSE InvokeOut(FALSE, Msg("tool_error:", <<"unknown">>), attempts, FALSE, events, effects)

\* The while loop from its test on, with the locals attempts and last.
RECURSIVE InvokeSyncLoop(_, _, _, _, _, _, _, _, _, _)

\* An attempt loop that also retries after a ValueError.
InvokeSyncAttemptRetriesUserError(c, ctx, tool, a, inloop, beh, k, r, events, effects) ==
    IF r.k = "return" THEN InvokeOut(TRUE, r.out, k, FALSE, events, effects)
    ELSE IF r.exc.cls = "ValueError" /\ k > cfg.max_retries
    THEN InvokeOut(FALSE, Msg("user_error:", r.exc.msg), k, TRUE,
             Emit(events, c, "tool.invoke.user_error",
                  [tool_name |-> tool.name, attempt |-> k, err |-> r.exc.msg]), effects)
    ELSE IF r.exc.cls \in {"RetryableToolError", "ValueError"}
    THEN IF k > cfg.max_retries
         THEN AfterLoop(k, Msg("tool_error:", r.exc.msg),
                  Emit(events, c, "tool.invoke.retryable",
                       [tool_name |-> tool.name, attempt |-> k, err |-> r.exc.msg]), effects)
         ELSE InvokeSyncLoop(c, ctx, tool, a, inloop, beh, k, Msg("tool_error:", r.exc.msg),
                  Emit(events, c, "tool.invoke.retryable",
                       [tool_name |-> tool.name, attempt |-> k, err |-> r.exc.msg]), effects)
    ELSE InvokeOut(FALSE, Msg("tool_error:", r.exc.msg), k, FALSE,
             Emit(events, c, "tool.invoke.fail",
                  [tool_name |-> tool.name, attempt |-> k, err |-> r.exc.msg]), effects)

\* Attempt k has ended as r.
InvokeSyncAttempt(c, ctx, tool, a, inloop, beh, k, r, events, effects) ==
    IF r.k = "return" THEN InvokeOut(TRUE, r.out, k, FALSE, events, effects)
    ELSE IF r.exc.cls = "ValueError"
    THEN InvokeOut(FALSE, Msg("user_error:", r.exc.msg), k, TRUE,
             Emit(events, c, "tool.invoke.user_error",
                  [tool_name |-> tool.name, attempt |-> k, err |-> r.exc.msg]), effects)
    ELSE IF r.exc.cls = "RetryableToolError"
    THEN IF k > cfg.max_retries
         THEN AfterLoop(k, Msg("tool_error:", r.exc.msg),
                  Emit(events, c, "tool.invoke.retryable",
                       [tool_name |-> tool.name, attempt |-> k, err |-> r.exc.msg]), effects)
         ELSE InvokeSyncLoop(c, ctx, tool, a, inloop, beh, k, Msg("tool_error:", r.exc.msg),
                  Emit(events, c, "tool.invoke.retryable",
                       [tool_name |-> tool.name, attempt |-> k, err |-> r.exc.msg]), effects)
    ELSE InvokeOut(FALSE, Msg("tool_error:", r.exc.msg), k, FALSE,
             Emit(events, c, "tool.invoke.fail",
                  [tool_name |-> tool.name, attempt |-> k, err |-> r.exc.msg]), effects)

InvokeSyncLoop(c, ctx, tool, a, inloop, beh, attempts, last, events, effects) ==
    IF ~(attempts <= cfg.max_retries) THEN AfterLoop(attempts, last, events, effects)
    ELSE InvokeSyncAttempt(c, ctx, tool, a, inloop, beh, attempts + 1,
             ToolS(tool, inloop, BehAt(beh, attempts + 1)), events,
             Append(effects, ToolCalled(c, attempts + 1, a)))

InvokeSync(c, ctx, tool, a, inloop, beh, events, effects) ==
    InvokeSyncLoop(c, ctx, tool, a, inloop, beh, 0, NoMsg,
                   Emit(events, c, "tool.invoke.start", [tool_name |-> tool.name]), effects)

(***************************************************************************)
(* Engine.run_sync, from the state (store, events, effects), stage by      *)
(* stage; each stage is handed the outcome of the one before.              *)
(***************************************************************************)
\* The output guardrails have run (g) on the normalized output n.
SyncFinish(c, tool, raw, a, n, attempts, g, store) ==
    IF g.out = "result" THEN Done(Returned(g.result), store, g.tr, g.fx, DictV(a), attempts)
    ELSE IF g.out = "raise" THEN Done(Raised(g.exc), store, g.tr, g.fx, DictV(a), attempts)
    ELSE Done(Returned(FinalizeAndStoreCache(c, tool, raw, n, attempts, store, g.tr).result),
              FinalizeAndStoreCache(c, tool, raw, n, attempts, store, g.tr).cache,
              FinalizeAndStoreCache(c, tool, raw, n, attempts, store, g.tr).tr,
              g.fx, DictV(a), attempts)

\* A run_sync that stores its failures in the cache.
SyncInvokedStoresFailure(c, ctx, tool, raw, a, i, store) ==
    IF ~i.ok
    THEN Done(Returned(ToolResult(tool.name, FALSE, NoneV, i.val, i.attempts, FALSE)),
              FinalizeAndStoreCache(c, tool, raw, NoneV, i.attempts, store, i.tr).cache,
              i.tr, i.fx, DictV(a), i.attempts)
    ELSE SyncFinish(c, tool, raw, a, Norm(tool.name, i.val, raw), i.attempts,
             RunGuardrailsOut(c, ctx, tool, Norm(tool.name, i.val, raw), i.attempts,
                 Emit(i.tr, c, "tool.invoke.ok", [tool_name |-> tool.name, attempts |-> i.attempts]),
                 i.fx),
             store)

\* _invoke_sync has returned i.
SyncInvoked(c, ctx, tool, raw, a, i, store) ==
    IF ~i.ok
    THEN Done(Returned(ToolResult(tool.name, FALSE, NoneV, i.val, i.attempts, FALSE)),
              store, i.tr, i.fx, DictV(a), i.attempts)
    ELSE SyncFinish(c, tool, raw, a, Norm(tool.name, i.val, raw), i.attempts,
             RunGuardrailsOut(c, ctx, tool, Norm(tool.name, i.val, raw), i.attempts,
                 Emit(i.tr, c, "tool.invoke.ok", [tool_name |-> tool.name, attempts |-> i.attempts]),
                 i.fx),
             store)

\* The input guardrails have run (g).
SyncGuarded(c, ctx, tool, raw, a, inloop, beh, g, store) ==
    IF g.out = "result" THEN Done(Returned(g.result), store, g.tr, g.fx, DictV(a), 0)
    ELSE IF g.out = "raise" THEN Done(Raised(g.exc), store, g.tr, g.fx, DictV(a), 0)
    ELSE SyncInvoked(c, ctx, tool, raw, a,
                     InvokeSync(c, ctx, tool, a, inloop, beh, g.tr, g.fx), store)

\* The cache has been looked up (cached).
SyncLookedUp(c, ctx, tool, raw, a, inloop, beh, cached, store, effects) ==
    IF cached.hit THEN Done(Returned(cached.result), store, cached.tr, effects, DictV(a), 0)
    ELSE SyncGuarded(c, ctx, tool, raw, a, inloop, beh,
                     RunGuardrailsIn(c, ctx, tool, a, cached.tr, effects), store)

\* The arguments have been parsed (parsed).
SyncParsed(c, ctx, tool, raw, inloop, beh, parsed, store, effects) ==
    IF ~parsed.ok THEN Done(Returned(parsed.result), store, parsed.tr, effects, NoneV, 0)
    ELSE SyncLookedUp(c, ctx, tool, raw, parsed.a, inloop, beh,
                      CheckCache(c, tool, raw, store, parsed.tr), store, effects)

\* The tool has been resolved; events ends with tool.resolve.ok.
SyncResolved(c, ctx, tool, name, raw, inloop, beh, store, events, effects) ==
    SyncParsed(c, ctx, tool, raw, inloop, beh,
               ParseAndCoerce(c, name, raw, tool,
                   Emit(events, c, "args.parse.start", [tool_name |-> tool.name])),
               store, effects)

RunSync(c, ctx, name, raw, inloop, beh, store, events, effects) ==
    IF ~RegistryGet(reg, name).ok
    THEN Done(Returned(ToolResult(name, FALSE, NoneV, <<"unknown_tool">>, 0, FALSE)), store,
              Emit(Emit(events, c, "tool.resolve.start", [tool_name |-> name]),
                   c, "tool.resolve.fail", [tool_name |-> name]),
              effects, NoneV, 0)
    ELSE SyncResolved(c, ctx, RegistryGet(reg, name).tool, name, raw, inloop, beh, store,
             Emit(Emit(events, c, "tool.resolve.start", [tool_name |-> name]),
                  c, "tool.resolve.ok", [tool_name |-> RegistryGet(reg, name).tool.name]),
             effects)

(***************************************************************************)
(* Engine.run_async with Engine._invoke_async, cut at its only await: the  *)
(* wait_for of one attempt.  pc is "await" while an attempt is in flight   *)
(* and "done" once the coroutine has returned or raised.                   *)
(***************************************************************************)
\* The output guardrails have run (g) on the normalized output n.
AsyncFinish(c, tool, raw, a, n, attempts, g, store) ==
    IF g.out = "result" THEN Done(Returned(g.result), store, g.tr, g.fx, DictV(a), attempts)
    ELSE IF g.out = "raise" THEN Done(Raised(g.exc), store, g.tr, g.fx, DictV(a), attempts)
    ELSE Done(Returned(FinalizeAndStoreCache(c, tool, raw, n, attempts, store, g.tr).result),
              FinalizeAndStoreCache(c, tool, raw, n, attempts, store, g.tr).cache,
              FinalizeAndStoreCache(c, tool, raw, n, attempts, store, g.tr).tr,
              g.fx, DictV(a), attempts)

\* _invoke_async has returned i.
AsyncInvoked(c, ctx, tool, raw, a, i, store) ==
    IF ~i.ok
    THEN Done(Returned(ToolResult(tool.name, FALSE, NoneV, i.val, i.attempts, FALSE)),
              store, i.tr, i.fx, DictV(a), i.attempts)
    ELSE AsyncFinish(c, tool, raw, a, Norm(tool.name, i.val, raw), i.attempts,
             RunGuardrailsOut(c, ctx, tool, Norm(tool.name, i.val, raw), i.attempts,
                 Emit(i.tr, c, "tool.invoke.ok", [tool_name |-> tool.name, attempts |-> i.attempts]),
                 i.fx),
             store)

\* A loop test that allows one attempt less.
AsyncLoopTopOneLess(c, ctx, tool, raw, a, attempts, last, store, events, effects) ==
    IF ~(attempts < cfg.max_retries)
    THEN AsyncInvoked(c, ctx, tool, raw, a, AfterLoop(attempts, last, events, effects), store)
    ELSE Left("await", NoRet, store, events, effects, DictV(a), attempts + 1, last)

\* The top of _invoke_async's while loop with the locals (attempts, last):
\* the next attempt is started and awaited, or the loop is left.
AsyncLoopTop(c, ctx, tool, raw, a, attempts, last, store, events, effects) ==
    IF ~(attempts <= cfg.max_retries)
    THEN AsyncInvoked(c, ctx, tool, raw, a, AfterLoop(attempts, last, events, effects), store)
    ELSE Left("await", NoRet, store, events, effects, DictV(a), attempts + 1, last)

\* The input guardrails have run (g).
AsyncGuarded(c, ctx, tool, raw, a, g, store) ==
    IF g.out = "result" THEN Done(Returned(g.result), store, g.tr, g.fx, DictV(a), 0)
    ELSE IF g.out = "raise" THEN Done(Raised(g.exc), store, g.tr, g.fx, DictV(a), 0)
    ELSE AsyncLoopTop(c, ctx, tool, raw, a, 0, NoMsg, store,
             Emit(g.tr, c, "tool.invoke.start", [tool_name |-> tool.name]), g.fx)

\* The cache has been looked up (cached).
AsyncLookedUp(c, ctx, tool, raw, a, cached, store, effects) ==
    IF cached.hit THEN Done(Returned(cached.result), store, cached.tr, effects, DictV(a), 0)
    ELSE AsyncGuarded(c, ctx, tool, raw, a,
                      RunGuardrailsIn(c, ctx, tool, a, cached.tr, effects), store)

\* The arguments have been parsed (parsed).
AsyncParsed(c, ctx, tool, raw, parsed, store, effects) ==
    IF ~parsed.ok THEN Done(Returned(parsed.result), store, parsed.tr, effects, NoneV, 0)
    ELSE AsyncLookedUp(c, ctx, tool, raw, parsed.a,
                       CheckCache(c, tool, raw, store, parsed.tr), store, effects)

\* The tool has been resolved; events ends with tool.resolve.ok.
AsyncResolved(c, ctx, tool, name, raw, store, events, effects) ==
    AsyncParsed(c, ctx, tool, raw,
                ParseAndCoerce(c, name, raw, tool,
                    Emit(events, c, "args.parse.start", [tool_name |-> tool.name])),
                store, effects)

\* run_async up to its first await.
AsyncStart(c, ctx, name, raw, store, events, effects) ==
    IF ~RegistryGet(reg, name).ok
    THEN Done(Returned(ToolResult(name, FALSE, NoneV, <<"unknown_tool">>, 0, FALSE)), store,
              Emit(Emit(events, c, "tool.resolve.start", [tool_name |-> name]),
                   c, "tool.resolve.fail", [tool_name |-> name]),
              effects, NoneV, 0)
    ELSE AsyncResolved(c, ctx, RegistryGet(reg, name).tool, name, raw, store,
             Emit(Emit(events, c, "tool.resolve.start", [tool_name |-> name]),
                  c, "tool.resolve.ok", [tool_name |-> RegistryGet(reg, name).tool.name]),
             effects)

\* The awaited attempt k has ended as r: the except clauses of
\* _invoke_async, and run_async on to its next await or to its end.
AsyncAttemptEnded(c, ctx, tool, raw, a, k, r, store, events, effects) ==
    IF r.k = "return"
    THEN AsyncInvoked(c, ctx, tool, raw, a, InvokeOut(TRUE, r.out, k, FALSE, events, effects), store)
    ELSE IF r.exc.cls = "TimeoutError"
    THEN AsyncInvoked(c, ctx, tool, raw, a,
             InvokeOut(FALSE, Msg("tool_error:", <<"timeout">>), k, FALSE,
                 Emit(events, c, "tool.invoke.timeout", [tool_name |-> tool.name, attempt |-> k]),
                 effects),
             store)
    ELSE IF r.exc.cls = "ValueError"
    THEN AsyncInvoked(c, ctx, tool, raw, a,
             InvokeOut(FALSE, Msg("user_error:", r.exc.msg), k, TRUE,
                 Emit(events, c, "tool.invoke.user_error",
                      [tool_name |-> tool.name, attempt |-> k, err |-> r.exc.msg]), effects),
             store)
    ELSE IF r.exc.cls = "RetryableToolError"
    THEN IF k > cfg.max_retries
         THEN AsyncInvoked(c, ctx, tool, raw, a,
                  AfterLoop(k, Msg("tool_error:", r.exc.msg),
                      Emit(events, c, "tool.invoke.retryable",
                           [tool_name |-> tool.name, attempt |-> k, err |-> r.exc.msg]), effects),
                  store)
         ELSE AsyncLoopTop(c, ctx, tool, raw, a, k, Msg("tool_error:", r.exc.msg), store,
                  Emit(events, c, "tool.invoke.retryable",
                       [tool_name |-> tool.name, attempt |-> k, err |-> r.exc.msg]), effects)
    ELSE AsyncInvoked(c, ctx, tool, raw, a,
             InvokeOut(FALSE, Msg("tool_error:", r.exc.msg), k, FALSE,
                 Emit(events, c, "tool.invoke.fail",
                      [tool_name |-> tool.name, attempt |-> k, err |-> r.exc.msg]), effects),
             store)

\* The attempt k a suspended call awaits runs the tool (behaviour b) and ends.
AsyncAttempt(c, ctx, tool, raw, a, k, last, b, store, events, effects) ==
    AsyncAttemptEnded(c, ctx, tool, raw, a, k, ToolA(tool, b), store, events,
                      Append(effects, ToolCalled(c, k, a)))

\* run_async run to its end with nothing else scheduled in between.
RECURSIVE AsyncRest(_, _, _, _, _, _)
AsyncRest(c, ctx, name, raw, beh, st) ==
    IF st.pc = "done" THEN st
    ELSE AsyncRest(c, ctx, name, raw, beh,
             AsyncAttempt(c, ctx, reg[name], raw, st.a.v, st.attempts, st.last,
                          BehAt(beh, st.attempts), st.cache, st.tr, st.fx))

RunAsync(c, ctx, name, raw, beh, store, events, effects) ==
    AsyncRest(c, ctx, name, raw, beh, AsyncStart(c, ctx, name, raw, store, events, effects))

(***************************************************************************)
(* The calls made to the Engine.                                           *)
(***************************************************************************)
Ctxs == {ToolContext("t1", NoneV)}
Names == {"t", "nope"}
Raws == {RawX1, RawX1Spaced, RawList}

NoTwin == [on |-> FALSE]

Call(mode, ctx, name, raw, inloop, beh, st) ==
    [mode |-> mode, ctx |-> ctx, name |-> name, raw |-> raw, inloop |-> inloop,
     beh |-> beh, pc |-> st.pc, last |-> st.last, a |-> st.a,
     attempts |-> st.attempts, ret |-> st.ret]

Pending == {i \in 1..Len(calls) : calls[i].pc = "await"}

Init ==
    /\ reg \in Registries
    /\ cfg \in {EngineConfig(m, e) : m \in 0..MaxRetries, e \in BOOLEAN}
    /\ in_g \in GuardLists
    /\ out_g \in GuardLists
    /\ Len(in_g) + Len(out_g) <= MaxGuards
    /\ cache = <<>>
    /\ tr = <<>>
    /\ fx = <<>>
    /\ calls = <<>>
    /\ twin = NoTwin
    /\ heap = <<>>
    /\ snap = <<>>

\* Whether run_sync of this tool name would have to drive a coroutine.
DrivesCoroutine(name) == name \in DOMAIN reg /\ reg[name].fn = "async"

\* A whole run_sync call.  inloop: it is made from inside a running event
\* loop, which matters only when it drives a coroutine (elsewhere inloop is
\* left FALSE); it is so made when other calls are suspended.  beh is
\* recorded as far as the tool's body ran.
DoRunSync(ctx, name, raw, inloop, beh) ==
    /\ Len(calls) < MaxCalls
    /\ inloop => DrivesCoroutine(name)
    /\ Pending # {} /\ DrivesCoroutine(name) => inloop
    /\ \E r \in {RunSync(Len(calls) + 1, ctx, name, raw, inloop, beh, cache, tr, fx)},
          w \in {RunAsync(Len(calls) + 1, ctx, name, raw, beh, cache, tr, fx)} :
          /\ cache' = r.cache
          /\ tr' = r.tr
          /\ fx' = r.fx
          /\ calls' = Append(calls, Call("sync", ctx, name, raw, inloop,
                                 IF inloop THEN <<>> ELSE [i \in 1..r.attempts |-> BehAt(beh, i)], r))
          /\ twin' = [on |-> TRUE, ret |-> w.ret = r.ret, cache |-> w.cache = r.cache,
                      tr |-> w.tr = r.tr, beh |-> [i \in 1..w.attempts |-> BehAt(beh, i)]]
    /\ UNCHANGED <<reg, cfg, in_g, out_g, heap, snap>>

\* A run_async call from its start to its first await (or to its end).
DoAsyncStart(ctx, name, raw) ==
    /\ Len(calls) < MaxCalls
    /\ \E r \in {AsyncStart(Len(calls) + 1, ctx, name, raw, cache, tr, fx)} :
          /\ cache' = r.cache
          /\ tr' = r.tr
          /\ fx' = r.fx
          /\ calls' = Append(calls, Call("async", ctx, name, raw, TRUE, <<>>, r))
    /\ twin' = NoTwin
    /\ UNCHANGED <<reg, cfg, in_g, out_g, heap, snap>>

\* The attempt a suspended run_async call awaits completes, and the call
\* runs on to its next await or to its end.
DoAsyncAttempt(c, b) ==
    /\ c \in Pending
    /\ \E r \in {AsyncAttempt(c, calls[c].ctx, reg[calls[c].name], calls[c].raw, calls[c].a.v,
                              calls[c].attempts, calls[c].last, b, cache, tr, fx)} :
          /\ cache' = r.cache
          /\ tr' = r.tr
          /\ fx' = r.fx
          /\ calls' = [calls EXCEPT ![c] =
                          Call("async", calls[c].ctx, calls[c].name, calls[c].raw, TRUE,
                               Append(calls[c].beh, b), r)]
    /\ twin' = NoTwin
    /\ UNCHANGED <<reg, cfg, in_g, out_g, heap, snap>>

Next ==
    \/ \E ctx \in Ctxs, name \in Names, raw \in Raws, inloop \in BOOLEAN, beh \in Scripts :
          DoRunSync(ctx, name, raw, inloop, beh)
    \/ \E ctx \in Ctxs, name \in Names, raw \in Raws : DoAsyncStart(ctx, name, raw)
    \/ \E c \in 1..MaxCalls, b \in Behaviours : DoAsyncAttempt(c, b)

Spec == Init /\ [][Next]_vars

(***************************************************************************)
(* What a state shows of its calls.                                        *)
(***************************************************************************)
CallIds == 1..Len(calls)
IsDone(c) == calls[c].pc = "done"
HasReturned(c) == IsDone(c) /\ calls[c].ret.k = "return"
Result(c) == calls[c].ret.result
Failed(c) == HasReturned(c) /\ ~Result(c).ok
Succeeded(c) == HasReturned(c) /\ Result(c).ok

\* Positions in the trace of the events of call c, and of those named n.
EventsOf(c) == {i \in 1..Len(tr) : tr[i].call = c}
EventsNamed(c, n) == {i \in EventsOf(c) : tr[i].name = n}

\* Positions in the effects of the calls that call c made to the tool
\* function, to input guardrails and to output guardrails.
ToolCalls(c) == {j \in 1..Len(fx) : fx[j].call = c /\ fx[j].what = "tool"}
InGuardCalls(c) == {j \in 1..Len(fx) : fx[j].call = c /\ fx[j].what = "in_g"}
OutGuardCalls(c) == {j \in 1..Len(fx) : fx[j].call = c /\ fx[j].what = "out_g"}

\* The pipeline stage an event belongs to.
Stage(n) ==
    CASE n \in {"tool.resolve.start", "tool.resolve.ok", "tool.resolve.fail"} -> 1
      [] n \in {"args.parse.start", "args.parse.ok", "args.parse.fail"} -> 2
      [] n \in {"cache.hit", "cache.miss"} -> 3
      [] n \in {"guard.input.start", "guard.input.ok", "guard.input.block"} -> 4
      [] n \in {"tool.invoke.start", "tool.invoke.retryable", "tool.invoke.user_error",
                "tool.invoke.timeout", "tool.invoke.fail", "tool.invoke.ok"} -> 5
      [] n \in {"guard.output.start", "guard.output.ok", "guard.output.block"} -> 6
      [] n = "cache.store" -> 7

Taxonomy == {"unknown_tool", "bad_args:", "guardrail:", "user_error:", "tool_error:"}

(***************************************************************************)
(* C1.  Every call returns a ToolResult and never raises; a failure is     *)
(* ok=false with a message that starts with a prefix of the taxonomy.      *)
(* The code lets an exception of a guardrail that is no GuardrailError     *)
(* leave run_sync and run_async.                                           *)
(***************************************************************************)
C1_NeverRaises ==
    \A c \in CallIds :
        IsDone(c) =>
            /\ calls[c].ret.k = "return"
            /\ ~Result(c).ok =>
                  /\ Result(c).error_message # NoMsg
                  /\ Head(Result(c).error_message) \in Taxonomy
            /\ (\/ \E j \in InGuardCalls(c) : in_g[fx[j].idx] = "crash"
                \/ \E j \in OutGuardCalls(c) : out_g[fx[j].idx] = "crash") =>
                  /\ ~Result(c).ok
                  /\ Head(Result(c).error_message) = "tool_error:"

(***************************************************************************)
(* C2.  A call that returns ok=false stopped at the stage that failed: it  *)
(* has no event and made no callable call of a later stage, it emitted no  *)
(* cache.store, and no step that is not the successful end of a call       *)
(* changes the cache.                                                      *)
(***************************************************************************)
\* The stage a failed result names.
FailStage(r) ==
    CASE Head(r.error_message) = "unknown_tool" -> 1
      [] Head(r.error_message) = "bad_args:" -> 2
      [] Head(r.error_message) = "guardrail:" -> IF r.attempts = 0 THEN 4 ELSE 6
      [] OTHER -> 5

StoppedAtFailure(c) ==
    /\ \A i \in EventsOf(c) : Stage(tr[i].name) <= FailStage(Result(c))
    /\ EventsNamed(c, "cache.store") = {}
    /\ FailStage(Result(c)) < 4 => InGuardCalls(c) = {}
    /\ FailStage(Result(c)) < 5 => ToolCalls(c) = {}
    /\ FailStage(Result(c)) < 6 => OutGuardCalls(c) = {}

\* In this step call c ends with a successful result.
EndsOk(c) ==
    /\ c \in 1..Len(calls')
    /\ calls'[c].pc = "done" /\ calls'[c].ret.k = "return" /\ calls'[c].ret.result.ok
    /\ c \in CallIds => ~IsDone(c)

C2_FailureSkipsLaterStages ==
    [][/\ \A c \in 1..Len(calls') : Failed(c)' => StoppedAtFailure(c)'
       /\ cache' # cache => \E c \in 1..Len(calls') : EndsOk(c)]_vars

\* A call has failed at its invocation while the cache held an entry.
C2_Witness ==
    /\ cache # <<>>
    /\ \E c \in CallIds : Failed(c) /\ FailStage(Result(c)) = 5 /\ ToolCalls(c) # {}

(***************************************************************************)
(* C3.  A call that emits cache.hit emits no guard.input.*, tool.invoke.*  *)
(* or guard.output.* event after it, does not invoke the tool function,    *)
(* and returns ok=true, cached=true, attempts=0.                           *)
(***************************************************************************)
C3_CacheHitShortCircuits ==
    \A c \in CallIds :
        \A i \in EventsNamed(c, "cache.hit") :
            /\ \A j \in EventsOf(c) : j > i => Stage(tr[j].name) \notin {4, 5, 6}
            /\ ToolCalls(c) = {}
            /\ HasReturned(c)
            /\ Result(c).ok /\ Result(c).cached /\ Result(c).attempts = 0

\* A call has hit the cache of an Engine that has input guardrails.
C3_Witness ==
    /\ in_g # <<>>
    /\ \E c \in CallIds : EventsNamed(c, "cache.hit") # {}

(***************************************************************************)
(* C4.  The tool function is invoked only after every input guardrail of   *)
(* the list has run, in list order, on the coerced arguments of the same   *)
(* call and returned normally.  When the i-th input guardrail raises       *)
(* GuardrailError, no later guardrail runs, the tool function is not       *)
(* invoked, and the call returns ok=false, guardrail:<message>,            *)
(* attempts=0.                                                             *)
(***************************************************************************)
CoercedArgs(c) == DictV(ParseArgs(calls[c].raw, reg[calls[c].name]).val)

InGuardOutcome(c, j) == GuardCall(in_g[fx[j].idx], calls[c].ctx, calls[c].name, fx[j].data)

Outcome(c, k) ==
    IF calls[c].mode = "sync"
    THEN ToolS(reg[calls[c].name], calls[c].inloop, BehAt(calls[c].beh, k))
    ELSE ToolA(reg[calls[c].name], calls[c].beh[k])

RetryableAt(c, k) == Outcome(c, k).k = "raise" /\ Outcome(c, k).exc.cls = "RetryableToolError"
SucceededAt(c, k) == Outcome(c, k).k = "return"

\* The number of invocations of the tool function call c has made.
Invocations(c) == Cardinality(ToolCalls(c))

(***************************************************************************)
(* C5.  A call invokes the tool again only after a RetryableToolError: any *)
(* other exception at attempt k is the last invocation of the call, whose  *)
(* result is ok=false with attempts=k.  A run_async call whose tool takes  *)
(* longer than async_timeout_s returns tool_error:timeout with attempts=1. *)
(***************************************************************************)
C5_OnlyRetryableRetries ==
    \A c \in CallIds :
        /\ {fx[j].idx : j \in ToolCalls(c)} = 1..Invocations(c)
        /\ \A k \in 2..Invocations(c) : RetryableAt(c, k - 1)
        /\ \A k \in 1..Invocations(c) :
              (~SucceededAt(c, k) /\ ~RetryableAt(c, k)) =>
                  /\ k = Invocations(c)
                  /\ HasReturned(c)
                  /\ ~Result(c).ok
                  /\ Result(c).attempts = k

\* The first attempt of run_async call c takes longer than async_timeout_s.
FirstAttemptSlow(c) ==
    /\ calls[c].mode = "async"
    /\ Len(calls[c].beh) >= 1
    /\ calls[c].beh[1].slow

TimedOutAtOnce(c) ==
    /\ HasReturned(c)
    /\ ~Result(c).ok
    /\ Result(c).error_message = Msg("tool_error:", <<"timeout">>)
    /\ Result(c).attempts = 1

\* As claimed: for every tool.
C5_AsClaimed ==
    /\ C5_OnlyRetryableRetries
    /\ \A c \in CallIds : FirstAttemptSlow(c) => TimedOutAtOnce(c)

\* C5 as it holds: the timeout is that of a tool whose body is a coroutine;
\* a plain function that takes longer is not cut short and its call goes on.
C5_FailFast ==
    /\ C5_OnlyRetryableRetries
    /\ \A c \in CallIds :
          (FirstAttemptSlow(c) /\ reg[calls[c].name].fn = "async") => TimedOutAtOnce(c)

\* A run_async call with retries left has timed out on its first attempt.
C5_Witness ==
    /\ cfg.max_retries >= 1
    /\ \E c \in CallIds :
          FirstAttemptSlow(c) /\ reg[calls[c].name].fn = "async" /\ TimedOutAtOnce(c)

(***************************************************************************)
(* C6.  A call invokes the tool function at most max_retries+1 times, and  *)
(* its result's attempts is the number of invocations.  When k retryable   *)
(* failures are followed by a success the result is ok=true with           *)
(* attempts=k+1; when all max_retries+1 attempts fail retryably the result *)
(* is ok=false, attempts=max_retries+1, tool_error:<last message>.         *)
(***************************************************************************)
C6_AttemptsCounted ==
    \A c \in CallIds :
        /\ Invocations(c) <= cfg.max_retries + 1
        /\ HasReturned(c) => Result(c).attempts = Invocations(c)
        /\ (/\ Invocations(c) = cfg.max_retries + 1
            /\ \A k \in 1..Invocations(c) : RetryableAt(c, k)) =>
               /\ HasReturned(c)
               /\ ~Result(c).ok
               /\ Result(c).attempts = cfg.max_retries + 1
               /\ Result(c).error_message =
                      Msg("tool_error:", Outcome(c, Invocations(c)).exc.msg)

\* Call c has ended, its last invocation a success.
EndedOnSuccess(c) ==
    /\ IsDone(c)
    /\ Invocations(c) >= 1
    /\ SucceededAt(c, Invocations(c))

OkWithAllAttempts(c) ==
    /\ HasReturned(c)
    /\ Result(c).ok
    /\ Result(c).attempts = Invocations(c)

\* No guardrail of the Engine raises anything but GuardrailError.
NoCrashingGuardrail ==
    /\ \A g \in 1..Len(in_g) : in_g[g] # "crash"
    /\ \A g \in 1..Len(out_g) : out_g[g] # "crash"

\* As claimed: whatever the output guardrails decide.
C6_AsClaimed ==
    NoCrashingGuardrail =>
        /\ C6_AttemptsCounted
        /\ \A c \in CallIds : EndedOnSuccess(c) => OkWithAllAttempts(c)

\* C6 as it holds: the success of the tool is the success of the call when
\* every output guardrail passes.
C6_RetryBudget ==
    /\ C6_AttemptsCounted
    /\ \A c \in CallIds :
          (EndedOnSuccess(c) /\ \A g \in 1..Len(out_g) : out_g[g] = "pass") =>
              OkWithAllAttempts(c)

\* One call succeeded on its last allowed attempt after retryable failures,
\* another used all its attempts up.
C6_Witness ==
    /\ cfg.max_retries >= 1
    /\ \E c \in CallIds :
          /\ Invocations(c) = cfg.max_retries + 1
          /\ EndedOnSuccess(c) /\ OkWithAllAttempts(c)
    /\ \E c \in CallIds :
          /\ Invocations(c) = cfg.max_retries + 1
          /\ IsDone(c) /\ RetryableAt(c, Invocations(c))

(***************************************************************************)
(* C7.  The cache is keyed by the exact pair (tool name, raw string): a    *)
(* call hits only an entry stored by a call of the same name and the same  *)
(* raw string, and two successful calls of one tool whose raw strings      *)
(* differ but decode to equal arguments each miss, each invoke the tool    *)
(* function and leave two entries.                                         *)
(***************************************************************************)
SameArgsOtherText(c1, c2) ==
    /\ calls[c1].name = calls[c2].name
    /\ calls[c1].raw # calls[c2].raw
    /\ CoercedArgs(c1) = CoercedArgs(c2)

C7_ExactRawKeys ==
    cfg.enable_cache =>
        /\ \A c \in CallIds : \A i \in EventsNamed(c, "cache.hit") :
              \E c2 \in CallIds : \E j \in EventsNamed(c2, "cache.store") :
                  /\ j < i
                  /\ calls[c2].name = calls[c].name
                  /\ calls[c2].raw = calls[c].raw
        /\ \A c1, c2 \in CallIds :
              (/\ Succeeded(c1) /\ Succeeded(c2)
               /\ ~Result(c1).cached /\ ~Result(c2).cached
               /\ SameArgsOtherText(c1, c2)) =>
                  /\ EventsNamed(c1, "cache.miss") # {} /\ EventsNamed(c2, "cache.miss") # {}
                  /\ ToolCalls(c1) # {} /\ ToolCalls(c2) # {}
                  /\ <<calls[c1].name, calls[c1].raw>> \in DOMAIN cache
                  /\ <<calls[c2].name, calls[c2].raw>> \in DOMAIN cache

\* Two calls whose raw strings differ in whitespace alone have succeeded.
C7_Witness ==
    /\ cfg.enable_cache
    /\ \E c1, c2 \in CallIds :
          /\ Succeeded(c1) /\ Succeeded(c2)
          /\ SameArgsOtherText(c1, c2)
          /\ Cardinality(DOMAIN cache) = 2

(***************************************************************************)
(* C8.  With the cache enabled and any input guardrails, one that blocks   *)
(* every call included, two consecutive run_sync calls of the same tool    *)
(* and raw string invoke the tool function once in all, and the second     *)
(* returns cached=true, attempts=0 after a cache.hit.  The code runs the   *)
(* input guardrails before the tool of the first call, so a blocked first  *)
(* call stores nothing and the second is blocked as well.                  *)
(***************************************************************************)
\* Calls 1 and 2 are run_sync calls of the registered tool with one valid
\* raw string, whose tool, when invoked, returned at once.
TwoLikeSyncCalls ==
    /\ Len(calls) >= 2
    /\ \A c \in {1, 2} :
          /\ calls[c].mode = "sync" /\ ~calls[c].inloop
          /\ calls[c].name \in DOMAIN reg
          /\ calls[c].raw = RawX1
          /\ \A k \in 1..Len(calls[c].beh) : calls[c].beh[k] = Return(OutPlain, FALSE)

C8_SecondCallIsCached ==
    (/\ cfg.enable_cache
     /\ NoCrashingGuardrail
     /\ \A g \in 1..Len(out_g) : out_g[g] = "pass"
     /\ TwoLikeSyncCalls) =>
        /\ Invocations(1) + Invocations(2) = 1
        /\ EventsNamed(2, "cache.hit") # {}
        /\ HasReturned(2)
        /\ Result(2).cached
        /\ Result(2).attempts = 0

(***************************************************************************)
(* C9.  run_sync and run_async started from the same cache and trace, on   *)
(* the same tool name, raw string and tool behaviour in which no attempt   *)
(* exceeds async_timeout_s, return equal results, append the same events   *)
(* and leave equal caches.                                                 *)
(***************************************************************************)
\* The run_sync call just made, and the behaviours it and its run_async
\* twin consumed.
LastCall == calls[Len(calls)]
TwinBehaviours == {LastCall.beh[k] : k \in 1..Len(LastCall.beh)}
                      \cup {twin.beh[k] : k \in 1..Len(twin.beh)}

TwinsAgree == twin.ret /\ twin.tr /\ twin.cache

\* As claimed: for every tool and every behaviour within the deadline.
C9_AsClaimed ==
    (/\ twin.on
     /\ NoCrashingGuardrail
     /\ \A b \in TwinBehaviours : ~b.slow) => TwinsAgree

\* C9 as it holds: the two also differ when the tool's body raises
\* TimeoutError itself, which only run_async reports as a timeout, and when
\* run_sync has to drive a coroutine inside a running event loop, which
\* only run_sync refuses.
C9_SameStateMachine ==
    (/\ twin.on
     /\ \A b \in TwinBehaviours :
           ~b.slow /\ ~(b.k = "raise" /\ b.exc.cls = "TimeoutError")
     /\ ~LastCall.inloop) => TwinsAgree

\* A run_sync call that retried and then stored its result has been
\* compared with its run_async twin.
C9_Witness ==
    /\ twin.on
    /\ ~LastCall.inloop
    /\ Len(LastCall.beh) = 2
    /\ \A b \in TwinBehaviours : (~b.slow /\ b.k = "return") \/ IsRetryable(b)
    /\ EventsNamed(Len(calls), "cache.store") # {}
    /\ TwinsAgree

(***************************************************************************)
(* C10.  Whatever the interleaving of the calls, the events of each single *)
(* call are in the trace in stage order: an event of a call comes after    *)
(* those of its earlier steps, and the per-attempt events of its           *)
(* invocation in increasing attempt number.                                *)
(***************************************************************************)
\* The place of an event in the order of the pipeline.
Step(n) ==
    CASE n = "tool.resolve.start" -> 1
      [] n \in {"tool.resolve.ok", "tool.resolve.fail"} -> 2
      [] n = "args.parse.start" -> 3
      [] n \in {"args.parse.ok", "args.parse.fail"} -> 4
      [] n \in {"cache.hit", "cache.miss"} -> 5
      [] n = "guard.input.start" -> 6
      [] n \in {"guard.input.ok", "guard.input.block"} -> 7
      [] n = "tool.invoke.start" -> 8
      [] n \in {"tool.invoke.retryable", "tool.invoke.user_error",
                "tool.invoke.timeout", "tool.invoke.fail"} -> 9
      [] n = "tool.invoke.ok" -> 10
      [] n = "guard.output.start" -> 11
      [] n \in {"guard.output.ok", "guard.output.block"} -> 12
      [] n = "cache.store" -> 13

InOrder(e1, e2) ==
    \/ Step(e1.name) < Step(e2.name)
    \/ /\ Step(e1.name) = 9 /\ Step(e2.name) = 9
       /\ e1.payload.attempt < e2.payload.attempt

C10_EventsInStageOrder ==
    \A c \in CallIds :
        /\ \A i, j \in EventsOf(c) : i < j => InOrder(tr[i], tr[j])
        /\ \E i \in EventsOf(c) : tr[i].name = "tool.resolve.start"

\* Two run_async calls have finished, the events of the invocation of each
\* lying between those of the other.
C10_Witness ==
    /\ Len(calls) >= 2
    /\ calls[1].mode = "async" /\ calls[2].mode = "async"
    /\ IsDone(1) /\ IsDone(2)
    /\ \E i \in EventsOf(1), j \in EventsOf(2), k \in EventsOf(1), l \in EventsOf(2) :
          /\ i < j /\ j < k /\ k < l
          /\ Step(tr[i].name) >= 8

(***************************************************************************)
(* C11.  A call that ends in failure, whatever the stage and the cause,    *)
(* has a failure event of the failing stage as its last event.  The        *)
(* exception of a guardrail that is no GuardrailError leaves the call      *)
(* with guard.input.start or guard.output.start as its last event.         *)
(***************************************************************************)
FailureEvents ==
    {"tool.resolve.fail", "args.parse.fail", "guard.input.block", "guard.output.block",
     "tool.invoke.user_error", "tool.invoke.retryable", "tool.invoke.timeout",
     "tool.invoke.fail"}

\* The last event of call c in the trace.
LastEvent(c) == tr[CHOOSE i \in EventsOf(c) : \A j \in EventsOf(c) : j <= i]

\* The failure event of the stage a failed result names.
EndsOnFailureEvent(c) ==
    /\ LastEvent(c).name \in FailureEvents
    /\ HasReturned(c) => Stage(LastEvent(c).name) = FailStage(Result(c))

C11_FailureIsLastEvent ==
    \A c \in CallIds : (IsDone(c) /\ ~Succeeded(c)) => EndsOnFailureEvent(c)

\* The same of the Engines whose guardrails raise nothing but GuardrailError.
C11_ButForCrashingGuardrails ==
    NoCrashingGuardrail => C11_FailureIsLastEvent

(***************************************************************************)
(* C12.  With enable_cache=false the cache stays empty, no cache.hit,      *)
(* cache.miss or cache.store is emitted, no result is cached, and every    *)
(* call that passes resolution, coercion and the input guardrails invokes  *)
(* the tool function, whatever calls came before.                          *)
(***************************************************************************)
C12_CacheDisabled ==
    ~cfg.enable_cache =>
        /\ cache = <<>>
        /\ \A i \in 1..Len(tr) : Stage(tr[i].name) \notin {3, 7}
        /\ \A c \in CallIds : HasReturned(c) => ~Result(c).cached
        /\ \A c \in CallIds :
              (IsDone(c) /\ EventsNamed(c, "guard.input.ok") # {}) => ToolCalls(c) # {}

\* Two like calls have both succeeded with the cache disabled.
C12_Witness ==
    /\ ~cfg.enable_cache
    /\ Len(calls) >= 2
    /\ calls[1].name = calls[2].name /\ calls[1].raw = calls[2].raw
    /\ Succeeded(1) /\ Succeeded(2)
    /\ ToolCalls(2) # {}

(***************************************************************************)
(* A TraceSink on its own, with a caller that emits one payload object     *)
(* again and again and mutates it in between.  A value that is a dict is   *)
(* held by reference: the payload p holds x, a number, and inner, a        *)
(* reference to the dict o, which holds y.                                 *)
(***************************************************************************)
Ref(id) == [t |-> "ref", v |-> id]

CallerHeaps ==
    {[p |-> [x |-> IntV(a), inner |-> Ref("o")], o |-> [y |-> IntV(b)]] :
        a \in 0..MaxVal, b \in 0..MaxVal}

\* What a dict holds to full depth, its references followed in heap h.
View(d, h) == [k \in DOMAIN d |-> IF d[k].t = "ref" THEN DictV(h[d[k].v]) ELSE d[k]]

SinkInit ==
    /\ reg = CHOOSE r \in Registries : r["t"].fn = "sync"
    /\ cfg = EngineConfig(MaxRetries, TRUE)
    /\ in_g = <<>>
    /\ out_g = <<>>
    /\ cache = <<>>
    /\ tr = <<>>
    /\ fx = <<>>
    /\ calls = <<>>
    /\ twin = NoTwin
    /\ heap \in CallerHeaps
    /\ snap = <<>>

\* t.emit("ev", p)
SinkEmit ==
    /\ Len(tr) < MaxEvents
    /\ tr' = Emit(tr, 0, "ev", heap["p"])
    /\ snap' = Append(snap, View(heap["p"], heap))
    /\ UNCHANGED <<reg, cfg, in_g, out_g, cache, fx, calls, twin, heap>>

\* p["x"] = v
MutateTop(v) ==
    /\ heap' = [heap EXCEPT !["p"]["x"] = IntV(v)]
    /\ UNCHANGED <<reg, cfg, in_g, out_g, cache, tr, fx, calls, twin, snap>>

\* p["inner"]["y"] = v
MutateNested(v) ==
    /\ heap' = [heap EXCEPT !["o"]["y"] = IntV(v)]
    /\ UNCHANGED <<reg, cfg, in_g, out_g, cache, tr, fx, calls, twin, snap>>

SinkNext ==
    \/ SinkEmit
    \/ \E v \in 0..MaxVal : MutateTop(v)
    \/ \E v \in 0..MaxVal : MutateNested(v)

SpecSink == SinkInit /\ [][SinkNext]_vars

(***************************************************************************)
(* C13.  The payload of a stored event is a snapshot to full depth: no     *)
(* later mutation of the caller's payload, at the top level or inside a    *)
(* value nested in it, changes it.  emit copies the top level only         *)
(* (dict(payload)), so the stored payload shares its nested values with    *)
(* the caller.                                                             *)
(***************************************************************************)
C13_PayloadIsDeepSnapshot ==
    \A i \in 1..Len(tr) : View(tr[i].payload, heap) = snap[i]

\* What does hold: the top level of a stored payload keeps its values, and
\* the events stored earlier are never changed or removed.
C13_TopLevelIsSnapshot ==
    \A i \in 1..Len(tr) :
        /\ tr[i].payload.x = snap[i].x
        /\ tr[i].payload.inner = Ref("o")

C13_AppendOnly ==
    [][Len(tr') >= Len(tr) /\ \A i \in 1..Len(tr) : tr'[i] = tr[i]]_vars

(***************************************************************************)
(* The Engine seen as a function of the argument document and of the       *)
(* tool's output: run_sync calls of the tool t, schema {"x": "int"}, with  *)
(* or without defaults, no guardrails, the cache enabled, on every         *)
(* argument document and every kind of output.                             *)
(***************************************************************************)
ValueDefaults == ("x" :> Chars(<<"7">>)) @@ ("d" :> IntV(0))

ValueRegistries ==
    {("t" :> FunctionTool("t", ToolSpec(<< <<"x", "int">> >>, dflt), "sync")) :
        dflt \in {<<>>, ValueDefaults}}

OutEchoWrap == DictV(("_echo_raw" :> BoolV(TRUE)) @@ ("_wrap" :> BoolV(TRUE)) @@ ("x" :> IntV(1)))

NormOuts == {OutPlain, OutWrap, OutEcho, OutEchoWrap, NoneV, BytesV(3)}

ValuesInit ==
    /\ reg \in ValueRegistries
    /\ cfg = EngineConfig(0, TRUE)
    /\ in_g = <<>>
    /\ out_g = <<>>
    /\ cache = <<>>
    /\ tr = <<>>
    /\ fx = <<>>
    /\ calls = <<>>
    /\ twin = NoTwin
    /\ heap = <<>>
    /\ snap = <<>>

ValuesNext ==
    \E ctx \in Ctxs, raw \in ArgRaws, out \in NormOuts :
        DoRunSync(ctx, "t", raw, FALSE, <<Return(out, FALSE)>>)

SpecValues == ValuesInit /\ [][ValuesNext]_vars

\* The document of call c as json.loads decodes it, and the tool it names.
Decoded(c) == JsonLoads(calls[c].raw).val.v
ToolOf(c) == reg[calls[c].name]
SchemaKeys(tool) == {tool.spec.schema[i][1] : i \in 1..Len(tool.spec.schema)}

(***************************************************************************)
(* C14.  The arguments the tool function gets hold every key of the        *)
(* decoded document that the schema does not name with its value and type  *)
(* unchanged, the schema's keys coerced, and a default only under a key    *)
(* the document does not hold.                                             *)
(***************************************************************************)
\* A string that, trimmed, is an optional single '-' and then digits only,
\* and the integer it writes.
Unsigned(s) == IF Strip(s) # <<>> /\ Head(Strip(s)) = "-" THEN Tail(Strip(s)) ELSE Strip(s)
WellFormedInt(s) == IsDigit(Unsigned(s))
SignedValue(s) ==
    IF Unsigned(s) = Strip(s) THEN DigitsVal(Unsigned(s)) ELSE 0 - DigitsVal(Unsigned(s))

\* Value v of an int key as the tool gets it.
CoercedInt(v, a) ==
    /\ IsInt(a)
    /\ IsInt(v) => a = v
    /\ IsStr(v) => a = IntV(SignedValue(v.v))

PassedThrough(d, a, tool) ==
    /\ DOMAIN a = DOMAIN d \cup DOMAIN tool.spec.defaults
    /\ \A k \in DOMAIN d \ SchemaKeys(tool) : a[k] = d[k]
    /\ \A k \in DOMAIN d \cap SchemaKeys(tool) : CoercedInt(d[k], a[k])
    /\ \A k \in DOMAIN tool.spec.defaults \ DOMAIN d :
          IF k \in SchemaKeys(tool) THEN CoercedInt(tool.spec.defaults[k], a[k])
          ELSE a[k] = tool.spec.defaults[k]

C14_UnknownKeysPassThrough ==
    \A c \in CallIds : \A j \in ToolCalls(c) :
        PassedThrough(Decoded(c), fx[j].data.v, ToolOf(c))

\* The tool got a key the schema does not name, a coerced x, and the
\* caller's value under a key that has a default.
C14_Witness ==
    \E c \in CallIds : \E j \in ToolCalls(c) :
        /\ "extra" \in DOMAIN Decoded(c) /\ fx[j].data.v["extra"] = IntV(7)
        /\ Decoded(c)["x"] = Chars(<<"2">>) /\ fx[j].data.v["x"] = IntV(2)
        /\ "d" \in DOMAIN ToolOf(c).spec.defaults
        /\ fx[j].data.v["d"] = Chars(<<"k", "e", "e", "p">>)

(***************************************************************************)
(* C18.  For the key x declared int: coercion succeeds exactly when the    *)
(* decoded value is an integer already, or a string that trimmed is an     *)
(* optional single '-' and then one or more digits, and gives that         *)
(* integer; every other value ends the call with ok=false and              *)
(* bad_args:bad_int:x.  The code takes a boolean for an integer, and       *)
(* strips every leading '-' before its digit test, so that int() raises    *)
(* on "--5" with a message of its own.                                     *)
(***************************************************************************)
AcceptableInt(v) == v.t = "int" \/ (v.t = "str" /\ WellFormedInt(v.v))

CoercionSucceeded(c, v) ==
    /\ EventsNamed(c, "args.parse.ok") # {}
    /\ \A j \in ToolCalls(c) :
          fx[j].data.v["x"] = IF v.t = "int" THEN v ELSE IntV(SignedValue(v.v))

CoercionRefused(c) ==
    /\ Failed(c)
    /\ Result(c).error_message = <<"bad_args:", "bad_int:", "x">>

C18_IntCoercion ==
    \A c \in CallIds :
        "x" \in DOMAIN Decoded(c) =>
            IF AcceptableInt(Decoded(c)["x"]) THEN CoercionSucceeded(c, Decoded(c)["x"])
            ELSE CoercionRefused(c)

\* The same but for the booleans and the strings with several leading '-'.
ManySigns(v) == v.t = "str" /\ Len(Strip(v.v)) >= 2 /\ SubSeq(Strip(v.v), 1, 2) = <<"-", "-">>

C18_ButForBoolAndSigns ==
    \A c \in CallIds :
        ("x" \in DOMAIN Decoded(c) /\ Decoded(c)["x"].t # "bool" /\ ~ManySigns(Decoded(c)["x"])) =>
            IF AcceptableInt(Decoded(c)["x"]) THEN CoercionSucceeded(c, Decoded(c)["x"])
            ELSE CoercionRefused(c)

(***************************************************************************)
(* What the tool returned in call c: the output of its last invocation.    *)
(***************************************************************************)
Produced(c) == Succeeded(c) /\ ~Result(c).cached /\ Invocations(c) >= 1
ToolOutput(c) == calls[c].beh[Invocations(c)].out
CacheKey(c) == <<calls[c].name, calls[c].raw>>

(***************************************************************************)
(* C15.  When the tool's output is a dict carrying the _echo_raw marker,   *)
(* the normalized output, in the result and in the cache, has no           *)
(* _echo_raw key, every other field of the output unchanged, and the raw   *)
(* argument string under raw.  The code adds raw and leaves the marker in. *)
(***************************************************************************)
EchoNormalized(out, n, raw) ==
    /\ n.t = "dict"
    /\ DOMAIN n.v = (DOMAIN out.v \ {"_echo_raw"}) \cup {"raw"}
    /\ \A k \in DOMAIN out.v \ {"_echo_raw", "raw"} : n.v[k] = out.v[k]
    /\ n.v["raw"] = TextV(raw)

C15_EchoRawStripped ==
    \A c \in CallIds :
        (Produced(c) /\ HasTrue(ToolOutput(c), "_echo_raw")) =>
            /\ EchoNormalized(ToolOutput(c), Result(c).output, calls[c].raw)
            /\ cache[CacheKey(c)] = Result(c).output

\* What does hold: the marker apart, the normalized output is as claimed.
C15_ButForTheMarker ==
    \A c \in CallIds :
        (Produced(c) /\ HasTrue(ToolOutput(c), "_echo_raw")) =>
            /\ EchoNormalized(ToolOutput(c), DictV(DictPop(Result(c).output.v, "_echo_raw")),
                              calls[c].raw)
            /\ cache[CacheKey(c)] = Result(c).output

(***************************************************************************)
(* C16.  When the tool's output is a dict carrying the _wrap marker and    *)
(* not the _echo_raw marker, the normalized output is exactly              *)
(* {tool: <the tool's name>, data: <the output's fields without _wrap>}.   *)
(***************************************************************************)
Wrapped(out, tool_name) ==
    DictV(("tool" :> TextV(tool_name))
          @@ ("data" :> DictV([k \in DOMAIN out.v \ {"_wrap"} |-> out.v[k]])))

C16_WrapNested ==
    \A c \in CallIds :
        (Produced(c) /\ HasTrue(ToolOutput(c), "_wrap") /\ ~HasTrue(ToolOutput(c), "_echo_raw")) =>
            /\ Result(c).output = Wrapped(ToolOutput(c), calls[c].name)
            /\ cache[CacheKey(c)] = Result(c).output
            /\ "_wrap" \in DOMAIN ToolOutput(c).v

\* A call whose tool returned {"_wrap": True, "x": 1} has succeeded.
C16_Witness ==
    \E c \in CallIds :
        /\ Produced(c)
        /\ ToolOutput(c) = OutWrap
        /\ Result(c).output.v["data"] = DictV("x" :> IntV(1))

(***************************************************************************)
(* C17.  run_sync called from inside a running event loop on a tool whose  *)
(* body is an async def returns a result with ok=false and a message that  *)
(* starts with tool_error:, after one attempt and one tool.invoke.fail     *)
(* event, whatever max_retries is.                                         *)
(***************************************************************************)
\* Call c is a run_sync made inside a running loop on an async-bodied tool.
NestedSync(c) == calls[c].mode = "sync" /\ calls[c].inloop /\ DrivesCoroutine(calls[c].name)

FailsOnceWithToolError(c) ==
    /\ HasReturned(c)
    /\ ~Result(c).ok
    /\ Head(Result(c).error_message) = "tool_error:"
    /\ Result(c).attempts = 1
    /\ Invocations(c) = 1
    /\ Cardinality(EventsNamed(c, "tool.invoke.fail")) = 1
    /\ EventsNamed(c, "tool.invoke.retryable") = {}

\* As claimed: of every such call whose arguments are valid, on an engine
\* without input guardrails.
C17_AsClaimed ==
    \A c \in CallIds :
        (NestedSync(c) /\ in_g = <<>> /\ ParseArgs(calls[c].raw, reg[calls[c].name]).ok) =>
            FailsOnceWithToolError(c)

\* C17 as it holds: of the calls that get as far as invoking the tool (no
\* failure before, no cache hit).
C17_NestedLoopFails ==
    \A c \in CallIds :
        (NestedSync(c) /\ EventsNamed(c, "tool.invoke.start") # {}) =>
            /\ FailsOnceWithToolError(c)
            /\ Result(c).error_message = Msg("tool_error:", NestedLoopError.msg)

\* Such a call has failed on an engine that allows retries.
C17_Witness ==
    \E c \in CallIds :
        /\ NestedSync(c)
        /\ cfg.max_retries >= 1
        /\ EventsNamed(c, "tool.invoke.start") # {}
        /\ Failed(c)
        /\ Result(c).attempts = 1

(***************************************************************************)
(* Calls that share cache keys: one engine with caching on and no          *)
(* guardrails, run_sync calls and run_async calls that interleave at the   *)
(* await of the invocation, on a tool whose output differs from one        *)
(* invocation to the next.                                                 *)
(***************************************************************************)
OutOther == DictV("x" :> IntV(2))

StoreBehaviours ==
    {Return(OutPlain, FALSE), Return(OutOther, FALSE), Raise("RuntimeError", <<"boom">>)}

StoreRaws == {RawX1, RawX1Spaced}

StoreInit ==
    /\ reg \in Registries
    /\ cfg = EngineConfig(0, TRUE)
    /\ in_g = <<>>
    /\ out_g = <<>>
    /\ cache = <<>>
    /\ tr = <<>>
    /\ fx = <<>>
    /\ calls = <<>>
    /\ twin = NoTwin
    /\ heap = <<>>
    /\ snap = <<>>

StoreNext ==
    \/ \E ctx \in Ctxs, raw \in StoreRaws, inloop \in BOOLEAN, b \in StoreBehaviours :
          DoRunSync(ctx, "t", raw, inloop, <<b>>)
    \/ \E ctx \in Ctxs, raw \in StoreRaws : DoAsyncStart(ctx, "t", raw)
    \/ \E c \in 1..MaxCalls, b \in StoreBehaviours : DoAsyncAttempt(c, b)

SpecStore == StoreInit /\ [][StoreNext]_vars

\* The position in the trace of the first event of call c, and those of the
\* cache.store events of call c.
FirstEvent(c) == CHOOSE i \in EventsOf(c) : \A j \in EventsOf(c) : i <= j
Stores(c) == EventsNamed(c, "cache.store")

\* The calls that have written key k, and the one that wrote it first.
StoredBy(k) == {d \in CallIds : CacheKey(d) = k /\ Stores(d) # {}}
FirstStorer(k) ==
    CHOOSE d \in StoredBy(k) :
        \A e \in StoredBy(k) : \A i \in Stores(d), j \in Stores(e) : i <= j

\* Call c began after key k was first written.
BeganAfterStore(c, k) ==
    /\ CacheKey(c) = k
    /\ StoredBy(k) # {}
    /\ \A j \in Stores(FirstStorer(k)) : FirstEvent(c) > j

\* Every key has been written at most once, and a finished call that began
\* after the write of its key has returned the value written, from the
\* cache, without invoking the tool.
StoredOnce ==
    /\ \A c, d \in CallIds : \A i \in Stores(c), j \in Stores(d) :
          CacheKey(c) = CacheKey(d) => i = j
    /\ \A c \in CallIds :
          (IsDone(c) /\ BeganAfterStore(c, CacheKey(c))) =>
              /\ Succeeded(c)
              /\ Result(c).cached
              /\ Result(c).output = Result(FirstStorer(CacheKey(c))).output
              /\ ToolCalls(c) = {}
              /\ Stores(c) = {}

\* A step removes no cache entry and changes none.
EntriesKept == \A k \in DOMAIN cache : k \in DOMAIN cache' /\ cache'[k] = cache[k]

\* No two calls with the same key have been in flight at the same time:
\* the earlier one had ended when the later one began.
NoSameKeyOverlap ==
    \A c, d \in CallIds :
        (c < d /\ CacheKey(c) = CacheKey(d)) =>
            /\ IsDone(c)
            /\ \A i \in EventsOf(c) : i < FirstEvent(d)

(***************************************************************************)
(* C19.  With caching on, an entry is written for a key (tool name, raw)   *)
(* only while the key is absent and is never overwritten or removed: every *)
(* later call with the key returns the value stored first and does not     *)
(* invoke the tool.  Claimed of sequential calls and of run_async calls    *)
(* interleaved at the await of the invocation alike.                       *)
(***************************************************************************)
C19_AsClaimed == [](StoredOnce) /\ [][EntriesKept]_vars

\* C19 as it holds: of calls of which no two with the same key are in
\* flight at the same time.
C19_WriteOnceInTurn ==
    [](NoSameKeyOverlap => StoredOnce) /\ [][NoSameKeyOverlap' => EntriesKept]_vars

\* A call has stored an entry and a later call with the same key, made when
\* the first had ended, was served from the cache.
C19_Witness ==
    /\ NoSameKeyOverlap
    /\ \E c, d \in CallIds :
          /\ c < d
          /\ CacheKey(c) = CacheKey(d)
          /\ Stores(c) # {}
          /\ calls[c].mode = "async"
          /\ Succeeded(d)
          /\ Result(d).cached

(***************************************************************************)
(* Calls under different contexts: one engine whose input guardrail        *)
(* decides by the context, called by a known user and anonymously.         *)
(***************************************************************************)
CtxPair == {ToolContext("t1", NoneV), ToolContext("t2", TextV("u1"))}

CtxInit ==
    /\ reg \in Registries
    /\ cfg \in {EngineConfig(0, e) : e \in BOOLEAN}
    /\ in_g = <<"known_user">>
    /\ out_g = <<>>
    /\ cache = <<>>
    /\ tr = <<>>
    /\ fx = <<>>
    /\ calls = <<>>
    /\ twin = NoTwin
    /\ heap = <<>>
    /\ snap = <<>>

CtxNext ==
    \/ \E ctx \in CtxPair, raw \in StoreRaws, inloop \in BOOLEAN :
          DoRunSync(ctx, "t", raw, inloop, <<Return(OutPlain, FALSE)>>)
    \/ \E ctx \in CtxPair, raw \in StoreRaws : DoAsyncStart(ctx, "t", raw)
    \/ \E c \in 1..MaxCalls : DoAsyncAttempt(c, Return(OutPlain, FALSE))

SpecCtx == CtxInit /\ [][CtxNext]_vars

\* Every input guardrail accepts call c's own context, tool name and
\* coerced arguments.
InputGuardrailsAccept(c) ==
    \A g \in 1..Len(in_g) : GuardCall(in_g[g], calls[c].ctx, calls[c].name, CoercedArgs(c)).ok

(***************************************************************************)
(* C20.  Every call that returns ok=true is one whose input guardrails     *)
(* accept its own context, tool name and coerced arguments: no earlier     *)
(* call under another context makes a later call succeed that its own      *)
(* input guardrails would have blocked.                                    *)
(***************************************************************************)
C20_AsClaimed == \A c \in CallIds : Succeeded(c) => InputGuardrailsAccept(c)

\* C20 as it holds: of the successful calls that are not served from the
\* cache; one served from the cache returns the entry of a call with the
\* same key that its own input guardrails accepted.
C20_AcceptedOrCached ==
    \A c \in CallIds :
        Succeeded(c) =>
            IF Result(c).cached
            THEN \E d \in CallIds :
                    /\ d # c
                    /\ CacheKey(d) = CacheKey(c)
                    /\ Stores(d) # {}
                    /\ InputGuardrailsAccept(d)
                    /\ Result(d).output = Result(c).output
            ELSE InputGuardrailsAccept(c)

\* The known user's call succeeded and the same call made anonymously was
\* blocked by the input guardrail.
C20_Witness ==
    \E c, d \in CallIds :
        /\ calls[c].raw = calls[d].raw
        /\ Succeeded(c) /\ ~Result(c).cached /\ InputGuardrailsAccept(c)
        /\ Failed(d) /\ ~InputGuardrailsAccept(d)
        /\ Result(d).error_message = Msg("guardrail:", <<"anonymous">>)

====
